---- MODULE Spec2Model ----
(***************************************************************************)
(* Model of the reconnecting Theater client                                *)
(* (changes/theater_client_with_reconnection.rs): the connection slot      *)
(* behind the tokio Mutex, the is_connecting flag, ensure_connected,       *)
(* send_command with its retry/backoff loop, and the heartbeat task that   *)
(* its owner may abort (src/server.rs, Drop).                              *)
(*                                                                         *)
(* Every caller is a task whose position (pc) is the .await it is          *)
(* suspended at; one action runs a task from one .await to the next.       *)
(***************************************************************************)
EXTENDS Integers, Sequences, FiniteSets, TLC

\* ---------------------------------------------------------------- bounds
MaxCalls == 2          \* send_command calls issued by each foreground caller
MaxPings == 2          \* interval ticks of the heartbeat
MaxFaults == 4         \* I/O failures and unparsable responses the environment injects
MaxLen == 300          \* payload lengths 0..MaxLen are tried one by one

\* ------------------------------------------------------ program constants
max_attempts == 3
InitialBackoffMs == 500

\* ---------------------------------------------------------------- callers
Foreground == {"a"}
Heartbeat == "hb"
Callers == Foreground \cup {Heartbeat}
None == "none"

VARIABLES
    client,          \* "new" | "connected" | "failed": outcome of connect(addr)
    slot,            \* connection: 0 is None, k > 0 is Some(k-th stream dialed)
    is_connecting,   \* the AtomicBool
    lockHolder,      \* owner of the MutexGuard on the slot, or None
    wire,            \* what has been written to / is unread on the slot's stream
    nconn,           \* streams established so far (identity of the next one)
    pc,              \* per caller: the .await it is suspended at
    attempt,         \* per caller: loop variable of send_command
    backoff_ms,      \* per caller: local backoff_ms of send_command
    calls,           \* per caller: send_command calls started
    hist,            \* per caller: what the current call has done so far
    result,          \* per caller: what the current/last call returned
    abortedAt,       \* where the heartbeat was when it was dropped, or None
    faults,          \* failures injected so far
    failed,          \* streams on which an operation has reported an error
    connectErr,      \* the words of the Err that connect(addr) returned, or <<>>
    original,        \* the original client (src/theater/client.rs) and its connect
    msgLen,          \* message.len() of a serialized command
    len_bytes,       \* the length prefix made for it, or <<>>
    response_len     \* what the reader of that prefix takes the length to be, or -1

\* the reconnecting client and its callers
clientVars == <<client, slot, is_connecting, lockHolder, wire, nconn, pc, attempt,
                backoff_ms, calls, hist, result, abortedAt, faults, failed>>
\* what only the operations outside send_command touch
codecVars == <<msgLen, len_bytes, response_len>>
unitVars == <<connectErr, original, codecVars>>

vars == <<clientVars, unitVars>>

\* ------------------------------------------------------------ data shapes
NoTag == [c |-> None, n |-> 0]
JunkTag == [c |-> "junk", n |-> 0]
\* the request of caller c's current call (there are no request ids on the
\* wire; the tag is the model's name for "the bytes of that request")
Tag(c) == [c |-> c, n |-> calls[c]]

CleanWire == [whdr |-> FALSE, rhdr |-> FALSE, desync |-> FALSE, unread |-> <<>>]

NoFrame == [kind |-> None, tag |-> NoTag]
\* what the server sends as a response: a Success, an Error, bytes that are
\* not a response, or a frame whose length header is 0 (no body at all)
Kinds == {"ok", "error", "garbage", "empty"}

\* what a call has done so far: ensure_connected calls, dials started, whole
\* requests written, whole responses read, whether any operation failed, the
\* delays slept, the one reason its failed attempts failed for ("mixed" when
\* they differ); and the attempt's locals: the error `e`, response_buf, the
\* stream that ensure_connected probed or dialed before returning Ok (kept
\* until the second lock is granted), and the stream `connection` borrows
FreshHist == [ec |-> 0, dials |-> 0, writes |-> 0, reads |-> 0, faulted |-> FALSE,
              slept |-> <<>>, causes |-> None, lastErr |-> None,
              frame |-> NoFrame, ecConn |-> 0, rtConn |-> 0]

Pending == [type |-> "pending", cause |-> None, count |-> 0, val |-> NoTag]

\* serde_json::from_slice(&response_buf): a frame that is not a response
\* does not parse; the reserved error shape becomes the Error variant
Decode(frame) ==
    IF frame.kind = "ok" THEN [ok |-> TRUE, variant |-> "Success", val |-> frame.tag]
    ELSE IF frame.kind = "error" THEN [ok |-> TRUE, variant |-> "Error", val |-> frame.tag]
    ELSE [ok |-> FALSE, variant |-> "Invalid", val |-> NoTag]

\* the io::Error kinds a dial can end in
IoErrors == {"connection refused", "timed out", "network unreachable"}

\* anyhow!("Failed to connect to Theater server: {}", e), word by word
ConnectError(e) == <<"Failed", "to", "connect", "to", "Theater", "server:", e>>

\* no original client has been asked for yet
NoOriginal == [state |-> "new", connection |-> 0, err |-> <<>>]

\* ------------------------------------------------------------------- Init
ClientInit ==
    /\ client = "new"
    /\ slot = 0
    /\ is_connecting = FALSE
    /\ lockHolder = None
    /\ wire = CleanWire
    /\ nconn = 0
    /\ pc = [c \in Callers |-> "idle"]
    /\ attempt = [c \in Callers |-> 0]
    /\ backoff_ms = [c \in Callers |-> 0]
    /\ calls = [c \in Callers |-> 0]
    /\ hist = [c \in Callers |-> FreshHist]
    /\ result = [c \in Callers |-> Pending]
    /\ abortedAt = None
    /\ faults = 0
    /\ failed = {}
    /\ connectErr = <<>>
    /\ original = NoOriginal

Init ==
    /\ ClientInit
    /\ msgLen = 0
    /\ len_bytes = <<>>
    /\ response_len = -1

\* connect that hands out a client although the dial failed
Connect_ClientAnyway(ok) ==
    /\ client = "new"
    /\ client' = "connected"
    /\ IF ok
       THEN /\ slot' = 1
            /\ nconn' = 1
            /\ UNCHANGED connectErr
       ELSE /\ \E e \in IoErrors : connectErr' = ConnectError(e)
            /\ UNCHANGED <<slot, nconn>>
    /\ UNCHANGED <<is_connecting, lockHolder, wire, pc, attempt, backoff_ms,
                   calls, hist, result, abortedAt, faults, failed,
                   original, codecVars>>

\* TheaterClient::connect (lines 28-40): the initial dial; a client exists
\* only on success, otherwise the caller gets the mapped error
Connect(ok) ==
    /\ client = "new"
    /\ IF ok
       THEN /\ client' = "connected"
            /\ slot' = 1
            /\ nconn' = 1
            /\ UNCHANGED connectErr
       ELSE /\ client' = "failed"
            /\ \E e \in IoErrors : connectErr' = ConnectError(e)
            /\ UNCHANGED <<slot, nconn>>
    /\ UNCHANGED <<is_connecting, lockHolder, wire, pc, attempt, backoff_ms,
                   calls, hist, result, abortedAt, faults, failed,
                   original, codecVars>>

\* --------------------------------------------------------------- helpers
\* the environment makes an operation fail (or the server answer with bytes
\* that do not parse) only while its budget of failures lasts
Inject(fault) ==
    IF fault THEN faults < MaxFaults /\ faults' = faults + 1
             ELSE faults' = faults

\* dropping a MutexGuard: the lock is free again if c held it
Release(c) == IF lockHolder = c THEN None ELSE lockHolder

\* hist follows the calls of the foreground callers; the heartbeat's pings
\* run the same code and their outcome is dropped at lines 221-223
Note(c, h) == [hist EXCEPT ![c] = IF c \in Foreground THEN h ELSE FreshHist]

Bump(h, f) == [h EXCEPT ![f] = @ + 1]
Fault(h) == [h EXCEPT !.faulted = TRUE]

\* Return after which a ping that ended in an error ends the heartbeat task
Return_HeartbeatStops(c, res, h) ==
    /\ pc' = [pc EXCEPT ![c] = IF c = Heartbeat /\ res.type \notin {"ok", "server_error"}
                                THEN "panicked" ELSE "idle"]
    /\ result' = [result EXCEPT ![c] = IF c = Heartbeat THEN Pending ELSE res]
    /\ hist' = Note(c, h)
    /\ lockHolder' = Release(c)

\* send_command returns `res` to its caller; every guard it holds is dropped.
\* The heartbeat discards the value (lines 221-223) and awaits the next tick.
Return(c, res, h) ==
    /\ pc' = [pc EXCEPT ![c] = "idle"]
    /\ result' = [result EXCEPT ![c] = IF c = Heartbeat THEN Pending ELSE res]
    /\ hist' = Note(c, h)
    /\ lockHolder' = Release(c)

\* the reason of one more failed attempt joins those seen so far
Merge(seen, cause) == IF seen \in {None, cause} THEN cause ELSE "mixed"

\* Exhausted naming the sleeps taken instead of the attempts made
Exhausted_CountsSleeps(cause) ==
    [type |-> "exhausted", cause |-> cause, count |-> max_attempts - 1, val |-> NoTag]

Exhausted(cause) ==
    [type |-> "exhausted", cause |-> cause, count |-> max_attempts, val |-> NoTag]

\* RetryOrFail with the last-attempt test dropped: it always sleeps
RetryOrFail_AlwaysSleeps(c, cause, sleepPc, h) ==
    /\ pc' = [pc EXCEPT ![c] = sleepPc]
    /\ hist' = Note(c, [h EXCEPT !.lastErr = cause,
                                  !.causes = Merge(@, cause),
                                  !.slept = Append(@, backoff_ms[c])])
    /\ lockHolder' = IF sleepPc = "io_sleep" THEN c ELSE Release(c)
    /\ UNCHANGED result

\* RetryOrFail that hands the failure to the caller instead of retrying
RetryOrFail_ReturnsAtOnce(c, cause, sleepPc, h) ==
    Return(c, [type |-> cause, cause |-> cause, count |-> attempt[c], val |-> NoTag],
           [h EXCEPT !.lastErr = cause, !.causes = Merge(@, cause)])

\* RetryOrFail that stops one attempt early
RetryOrFail_OneShort(c, cause, sleepPc, h) ==
    LET h1 == [h EXCEPT !.lastErr = cause, !.causes = Merge(@, cause)] IN
    IF attempt[c] >= max_attempts - 1
    THEN Return(c, Exhausted(cause), h1)
    ELSE /\ pc' = [pc EXCEPT ![c] = sleepPc]
         /\ hist' = Note(c, [h1 EXCEPT !.slept = Append(@, backoff_ms[c])])
         /\ lockHolder' = IF sleepPc = "io_sleep" THEN c ELSE Release(c)
         /\ UNCHANGED result

\* RetryOrFail that drops the guard before every sleep
RetryOrFail_SleepsUnlocked(c, cause, sleepPc, h) ==
    LET h1 == [h EXCEPT !.lastErr = cause, !.causes = Merge(@, cause)] IN
    IF attempt[c] = max_attempts
    THEN Return(c, Exhausted(cause), h1)
    ELSE /\ pc' = [pc EXCEPT ![c] = sleepPc]
         /\ hist' = Note(c, [h1 EXCEPT !.slept = Append(@, backoff_ms[c])])
         /\ lockHolder' = Release(c)
         /\ UNCHANGED result

\* the tail shared by every recoverable failure of an attempt (lines 91-98,
\* 118-125, 134-141, 151-158, 170-177, 186-193): on the last attempt return
\* the terminal error, otherwise start sleeping backoff_ms.  A failure inside
\* the round trip sleeps with connection_guard still alive ("io_sleep").
RetryOrFail(c, cause, sleepPc, h) ==
    LET h1 == [h EXCEPT !.lastErr = cause, !.causes = Merge(@, cause)] IN
    IF attempt[c] = max_attempts
    THEN Return(c, Exhausted(cause), h1)
    ELSE /\ pc' = [pc EXCEPT ![c] = sleepPc]
         /\ hist' = Note(c, [h1 EXCEPT !.slept = Append(@, backoff_ms[c])])
         /\ lockHolder' = IF sleepPc = "io_sleep" THEN c ELSE Release(c)
         /\ UNCHANGED result

\* -------------------------------------------------------- starting a call
\* BeginCall that takes the delay over from the caller's previous call
BeginCall_KeepsBackoff(c) ==
    /\ calls' = [calls EXCEPT ![c] = @ + 1]
    /\ attempt' = [attempt EXCEPT ![c] = 1]
    /\ backoff_ms' = [backoff_ms EXCEPT ![c] = IF @ = 0 THEN InitialBackoffMs ELSE @]
    /\ hist' = Note(c, FreshHist)
    /\ result' = [result EXCEPT ![c] = Pending]
    /\ pc' = [pc EXCEPT ![c] = "ec_lock"]
    /\ UNCHANGED <<unitVars, client, slot, is_connecting, lockHolder, wire, nconn,
                   abortedAt, faults, failed>>

\* send_command lines 84-88: fresh attempt counter and backoff
BeginCall(c) ==
    /\ calls' = [calls EXCEPT ![c] = @ + 1]
    /\ attempt' = [attempt EXCEPT ![c] = 1]
    /\ backoff_ms' = [backoff_ms EXCEPT ![c] = InitialBackoffMs]
    /\ hist' = Note(c, FreshHist)
    /\ result' = [result EXCEPT ![c] = Pending]
    /\ pc' = [pc EXCEPT ![c] = "ec_lock"]
    /\ UNCHANGED <<unitVars, client, slot, is_connecting, lockHolder, wire, nconn,
                   abortedAt, faults, failed>>

\* a foreground caller invokes send_command
Send(c) ==
    /\ client = "connected"
    /\ c \in Foreground
    /\ pc[c] = "idle"
    /\ calls[c] < MaxCalls
    /\ BeginCall(c)

\* Tick that does not wait for the previous ping to return
Tick_Overlapping ==
    /\ client = "connected"
    /\ pc[Heartbeat] \notin {"aborted", "panicked"}
    /\ calls[Heartbeat] < MaxPings
    /\ BeginCall(Heartbeat)

\* start_heartbeat lines 219-221: the interval fires and ping() calls
\* list_actors -> send_command
Tick ==
    /\ client = "connected"
    /\ pc[Heartbeat] = "idle"
    /\ calls[Heartbeat] < MaxPings
    /\ BeginCall(Heartbeat)

\* ------------------------------------------------------- ensure_connected
\* DialOrInProgress with the guard dropped before the connect and the flag
\* stored instead of swapped: nothing keeps a second caller from dialing
DialOutsideGuard(c, h) ==
    /\ is_connecting' = TRUE
    /\ pc' = [pc EXCEPT ![c] = "ec_dial"]
    /\ hist' = Note(c, Bump(h, "dials"))
    /\ lockHolder' = Release(c)
    /\ UNCHANGED result

\* DialOrInProgress whose in-progress failure goes straight to the caller
DialOrInProgress_NoRetry(c, h) ==
    IF ~is_connecting
    THEN /\ is_connecting' = TRUE
         /\ pc' = [pc EXCEPT ![c] = "ec_dial"]
         /\ hist' = Note(c, Bump(h, "dials"))
         /\ lockHolder' = c
         /\ UNCHANGED result
    ELSE /\ is_connecting' = is_connecting
         /\ Return(c, Exhausted("in_progress"),
                   [h EXCEPT !.lastErr = "in_progress",
                             !.causes = Merge(@, "in_progress")])

\* DialOrInProgress that does not look at the flag before dialing
DialOrInProgress_IgnoresFlag(c, h) ==
    /\ is_connecting' = TRUE
    /\ pc' = [pc EXCEPT ![c] = "ec_dial"]
    /\ hist' = Note(c, Bump(h, "dials"))
    /\ lockHolder' = c
    /\ UNCHANGED result

\* DialOrInProgress that drops the guard for the time of the connect
DialOrInProgress_Unlocked(c, h) ==
    IF ~is_connecting
    THEN /\ is_connecting' = TRUE
         /\ pc' = [pc EXCEPT ![c] = "ec_dial"]
         /\ hist' = Note(c, Bump(h, "dials"))
         /\ lockHolder' = Release(c)
         /\ UNCHANGED result
    ELSE /\ is_connecting' = is_connecting
         /\ RetryOrFail(c, "in_progress", "ec_sleep", h)

\* lines 57-76, run with the guard held and the slot empty: claim the flag
\* and start dialing, or fail at once when the flag is already set
DialOrInProgress(c, h) ==
    IF ~is_connecting
    THEN /\ is_connecting' = TRUE
         /\ pc' = [pc EXCEPT ![c] = "ec_dial"]
         /\ hist' = Note(c, Bump(h, "dials"))
         /\ lockHolder' = c
         /\ UNCHANGED result
    ELSE /\ is_connecting' = is_connecting
         /\ RetryOrFail(c, "in_progress", "ec_sleep", h)

\* EC_Lock that re-dials whether or not the slot holds a stream
EC_Lock_AlwaysDials(c) ==
    /\ pc[c] = "ec_lock"
    /\ lockHolder = None
    /\ DialOrInProgress(c, Bump(hist[c], "ec"))
    /\ UNCHANGED <<unitVars, client, slot, wire, nconn, attempt, backoff_ms, calls,
                   abortedAt, faults, failed>>

\* line 44: connection.lock().await is granted; then lines 47-49 or 57-59
EC_Lock(c) ==
    /\ pc[c] = "ec_lock"
    /\ lockHolder = None
    /\ LET h == Bump(hist[c], "ec") IN
       IF slot # 0
       THEN /\ pc' = [pc EXCEPT ![c] = "ec_probe"]
            /\ lockHolder' = c
            /\ hist' = Note(c, h)
            /\ UNCHANGED <<is_connecting, result>>
       ELSE DialOrInProgress(c, h)
    /\ UNCHANGED <<unitVars, client, slot, wire, nconn, attempt, backoff_ms, calls,
                   abortedAt, faults, failed>>

\* lines 49-54 and 79: the zero-length write completes (whether a write of
\* no bytes can report an error is the transport's affair: both outcomes)
EC_Probe(c, ok) ==
    /\ pc[c] = "ec_probe"
    /\ Inject(~ok)
    /\ IF ok
       THEN /\ pc' = [pc EXCEPT ![c] = "sc_lock"]
            /\ lockHolder' = Release(c)
            /\ hist' = Note(c, [hist[c] EXCEPT !.ecConn = slot])
            /\ UNCHANGED <<slot, wire, is_connecting, result, failed>>
       ELSE /\ slot' = 0
            /\ wire' = CleanWire
            /\ failed' = failed \cup {slot}
            /\ DialOrInProgress(c, Fault(hist[c]))
    /\ UNCHANGED <<unitVars, client, nconn, attempt, backoff_ms, calls, abortedAt>>

\* EC_Dial that returns Ok without storing the stream it dialed
EC_Dial_DropsStream(c, ok) ==
    /\ pc[c] = "ec_dial"
    /\ Inject(~ok)
    /\ is_connecting' = FALSE
    /\ IF ok
       THEN /\ nconn' = nconn + 1
            /\ pc' = [pc EXCEPT ![c] = "sc_lock"]
            /\ lockHolder' = Release(c)
            /\ UNCHANGED <<slot, wire, hist, result>>
       ELSE /\ RetryOrFail(c, "dial", "ec_sleep", Fault(hist[c]))
            /\ UNCHANGED <<slot, nconn, wire>>
    /\ UNCHANGED <<unitVars, client, attempt, backoff_ms, calls, abortedAt, failed>>

\* EC_Dial that resets the flag only when the dial succeeded
EC_Dial_FlagStaysOnError(c, ok) ==
    /\ pc[c] = "ec_dial"
    /\ Inject(~ok)
    /\ IF ok
       THEN /\ is_connecting' = FALSE
            /\ slot' = nconn + 1
            /\ nconn' = nconn + 1
            /\ wire' = CleanWire
            /\ pc' = [pc EXCEPT ![c] = "sc_lock"]
            /\ lockHolder' = Release(c)
            /\ UNCHANGED <<hist, result>>
       ELSE /\ RetryOrFail(c, "dial", "ec_sleep", Fault(hist[c]))
            /\ UNCHANGED <<slot, nconn, wire, is_connecting>>
    /\ UNCHANGED <<unitVars, client, attempt, backoff_ms, calls, abortedAt, failed>>

\* lines 61-72 and 79: TcpStream::connect completes
EC_Dial(c, ok) ==
    /\ pc[c] = "ec_dial"
    /\ Inject(~ok)
    /\ is_connecting' = FALSE
    /\ IF ok
       THEN /\ slot' = nconn + 1
            /\ nconn' = nconn + 1
            /\ wire' = CleanWire
            /\ pc' = [pc EXCEPT ![c] = "sc_lock"]
            /\ lockHolder' = Release(c)
            /\ hist' = Note(c, [hist[c] EXCEPT !.ecConn = nconn + 1])
            /\ UNCHANGED result
       ELSE /\ RetryOrFail(c, "dial", "ec_sleep", Fault(hist[c]))
            /\ UNCHANGED <<slot, nconn, wire>>
    /\ UNCHANGED <<unitVars, client, attempt, backoff_ms, calls, abortedAt, failed>>

\* ----------------------------------------------------------- send_command
\* SC_Lock that does not wait for the guard (the stream used without the lock)
SC_Lock_NoWait(c) ==
    /\ pc[c] = "sc_lock"
    /\ IF slot = 0
       THEN /\ pc' = [pc EXCEPT ![c] = "panicked"]
            /\ result' = [result EXCEPT ![c] =
                  [type |-> "panic", cause |-> "unwrap", count |-> 0, val |-> NoTag]]
            /\ UNCHANGED <<lockHolder, hist>>
       ELSE /\ pc' = [pc EXCEPT ![c] = "w_len"]
            /\ lockHolder' = IF lockHolder = None THEN c ELSE lockHolder
            /\ hist' = Note(c, [hist[c] EXCEPT !.ecConn = 0, !.rtConn = slot])
            /\ UNCHANGED result
    /\ UNCHANGED <<unitVars, client, slot, is_connecting, wire, nconn, attempt,
                   backoff_ms, calls, abortedAt, faults, failed>>

\* lines 109-110: the second lock().await is granted; as_mut().unwrap()
\* panics when the slot was emptied since ensure_connected returned
SC_Lock(c) ==
    /\ pc[c] = "sc_lock"
    /\ lockHolder = None
    /\ IF slot = 0
       THEN /\ pc' = [pc EXCEPT ![c] = "panicked"]
            /\ result' = [result EXCEPT ![c] =
                  [type |-> "panic", cause |-> "unwrap", count |-> 0, val |-> NoTag]]
            /\ UNCHANGED <<lockHolder, hist>>
       ELSE /\ pc' = [pc EXCEPT ![c] = "w_len"]
            /\ lockHolder' = c
            /\ hist' = Note(c, [hist[c] EXCEPT !.ecConn = 0, !.rtConn = slot])
            /\ UNCHANGED result
    /\ UNCHANGED <<unitVars, client, slot, is_connecting, wire, nconn, attempt,
                   backoff_ms, calls, abortedAt, faults, failed>>

\* ClearAndRetry that leaves the failed stream in the slot
ClearAndRetry_KeepsSlot(c, cause) ==
    /\ UNCHANGED <<slot, wire>>
    /\ failed' = failed \cup {slot}
    /\ RetryOrFail(c, cause, "io_sleep", Fault(hist[c]))

\* lines 116, 132, 149, 168: *connection_guard = None, then the retry tail
ClearAndRetry(c, cause) ==
    /\ slot' = 0
    /\ wire' = CleanWire
    /\ failed' = failed \cup {slot}
    /\ RetryOrFail(c, cause, "io_sleep", Fault(hist[c]))

\* lines 113-126: write_all(&len_bytes) completes
W_Len(c, ok) ==
    /\ pc[c] = "w_len"
    /\ Inject(~ok)
    /\ IF ok
       THEN /\ wire' = [wire EXCEPT !.whdr = TRUE,
                                    !.desync = @ \/ wire.whdr \/ wire.rhdr]
            /\ pc' = [pc EXCEPT ![c] = "w_body"]
            /\ UNCHANGED <<slot, lockHolder, hist, result, failed>>
       ELSE ClearAndRetry(c, "write_len")
    /\ UNCHANGED <<unitVars, client, is_connecting, nconn, attempt, backoff_ms, calls,
                   abortedAt>>

\* lines 129-142: write_all(&message) completes; the request is now whole on
\* the stream and the server will answer it
W_Body(c, ok) ==
    /\ pc[c] = "w_body"
    /\ Inject(~ok)
    /\ IF ok
       THEN /\ wire' = [wire EXCEPT !.whdr = FALSE,
                           !.unread = Append(@, IF wire.desync THEN JunkTag ELSE Tag(c))]
            /\ pc' = [pc EXCEPT ![c] = "r_len"]
            /\ hist' = Note(c, Bump(hist[c], "writes"))
            /\ UNCHANGED <<slot, lockHolder, result, failed>>
       ELSE ClearAndRetry(c, "write_body")
    /\ UNCHANGED <<unitVars, client, is_connecting, nconn, attempt, backoff_ms, calls,
                   abortedAt>>

\* lines 146-161: read_exact(&mut len_buf) completes
R_Len(c, ok) ==
    /\ pc[c] = "r_len"
    /\ Inject(~ok)
    /\ IF ok
       THEN /\ wire' = [wire EXCEPT !.rhdr = TRUE, !.desync = @ \/ wire.rhdr]
            /\ pc' = [pc EXCEPT ![c] = "r_body"]
            /\ UNCHANGED <<slot, lockHolder, hist, result, failed>>
       ELSE ClearAndRetry(c, "read_len")
    /\ UNCHANGED <<unitVars, client, is_connecting, nconn, attempt, backoff_ms, calls,
                   abortedAt>>

\* the next complete frame on the stream: the server's answer (of the kind
\* the server chose) to the oldest request not yet answered to the client
NextFrame(kind) ==
    IF wire.desync \/ wire.unread = <<>>
    THEN [kind |-> kind, tag |-> JunkTag]
    ELSE [kind |-> kind, tag |-> Head(wire.unread)]

\* Reply without the check for the Error variant
Reply_NoErrorCheck(resp) ==
    [type |-> "ok", cause |-> None, count |-> 0, val |-> resp.val]

\* lines 199-205: what send_command returns for a decoded response
Reply(resp) ==
    IF resp.variant = "Error"
    THEN [type |-> "server_error", cause |-> None, count |-> 0, val |-> resp.val]
    ELSE [type |-> "ok", cause |-> None, count |-> 0, val |-> resp.val]

\* R_Body that treats an undecodable response as a broken connection
R_Body_DecodeClears(c, ok, kind) ==
    /\ pc[c] = "r_body"
    /\ kind = "empty" => ok
    /\ Inject(~ok \/ kind \in {"garbage", "empty"})
    /\ IF ok
       THEN LET frame == NextFrame(kind)
                resp == Decode(frame)
                h == [Bump(hist[c], "reads") EXCEPT !.frame = frame]
            IN  /\ wire' = [wire EXCEPT !.rhdr = FALSE,
                               !.unread = IF @ = <<>> THEN @ ELSE Tail(@)]
                /\ failed' = failed
                /\ IF resp.ok
                   THEN slot' = slot /\ Return(c, Reply(resp), h)
                   ELSE slot' = 0 /\ RetryOrFail(c, "decode", "io_sleep", Fault(h))
       ELSE ClearAndRetry(c, "read_body")
    /\ UNCHANGED <<unitVars, client, is_connecting, nconn, attempt, backoff_ms, calls,
                   abortedAt>>

\* R_Body that drops the connection when the server answers with an error
R_Body_ErrorDisconnects(c, ok, kind) ==
    /\ pc[c] = "r_body"
    /\ kind = "empty" => ok
    /\ Inject(~ok \/ kind \in {"garbage", "empty"})
    /\ IF ok
       THEN LET frame == NextFrame(kind)
                resp == Decode(frame)
                h == [Bump(hist[c], "reads") EXCEPT !.frame = frame]
            IN  /\ wire' = [wire EXCEPT !.rhdr = FALSE,
                               !.unread = IF @ = <<>> THEN @ ELSE Tail(@)]
                /\ slot' = IF resp.ok /\ resp.variant = "Error" THEN 0 ELSE slot
                /\ UNCHANGED failed
                /\ IF resp.ok
                   THEN Return(c, Reply(resp), h)
                   ELSE RetryOrFail(c, "decode", "io_sleep", Fault(h))
       ELSE ClearAndRetry(c, "read_body")
    /\ UNCHANGED <<unitVars, client, is_connecting, nconn, attempt, backoff_ms, calls,
                   abortedAt>>

\* R_Body that takes a zero-length body for a closed connection
R_Body_EmptyIsEof(c, ok, kind) ==
    /\ pc[c] = "r_body"
    /\ kind = "empty" => ok
    /\ Inject(~ok \/ kind \in {"garbage", "empty"})
    /\ IF ok
       THEN LET frame == NextFrame(kind)
                resp == Decode(frame)
                h == [Bump(hist[c], "reads") EXCEPT !.frame = frame]
            IN  /\ wire' = [wire EXCEPT !.rhdr = FALSE,
                               !.unread = IF @ = <<>> THEN @ ELSE Tail(@)]
                /\ slot' = IF kind = "empty" THEN 0 ELSE slot
                /\ failed' = IF kind = "empty" THEN failed \cup {slot} ELSE failed
                /\ IF resp.ok
                   THEN Return(c, Reply(resp), h)
                   ELSE RetryOrFail(c, IF kind = "empty" THEN "read_body" ELSE "decode",
                                    "io_sleep", Fault(h))
       ELSE ClearAndRetry(c, "read_body")
    /\ UNCHANGED <<unitVars, client, is_connecting, nconn, attempt, backoff_ms, calls,
                   abortedAt>>

\* lines 165-205: read_exact(&mut response_buf) completes, then the decode,
\* the error check and the return, none of which awaits.  With a header of
\* 0 the buffer is empty (line 164) and read_exact has nothing to read: it
\* cannot fail, and from_slice is handed an empty slice
R_Body(c, ok, kind) ==
    /\ pc[c] = "r_body"
    /\ kind = "empty" => ok
    /\ Inject(~ok \/ kind \in {"garbage", "empty"})
    /\ IF ok
       THEN LET frame == NextFrame(kind)
                resp == Decode(frame)
                h == [Bump(hist[c], "reads") EXCEPT !.frame = frame]
            IN  /\ wire' = [wire EXCEPT !.rhdr = FALSE,
                               !.unread = IF @ = <<>> THEN @ ELSE Tail(@)]
                /\ UNCHANGED <<slot, failed>>
                /\ IF resp.ok
                   THEN Return(c, Reply(resp), h)
                   ELSE RetryOrFail(c, "decode", "io_sleep", Fault(h))
       ELSE ClearAndRetry(c, "read_body")
    /\ UNCHANGED <<unitVars, client, is_connecting, nconn, attempt, backoff_ms, calls,
                   abortedAt>>

\* Wake that leaves backoff_ms as it was (a constant delay)
Wake_NoDoubling(c) ==
    /\ pc[c] \in {"ec_sleep", "io_sleep"}
    /\ backoff_ms' = backoff_ms
    /\ IF attempt[c] < max_attempts
       THEN /\ attempt' = [attempt EXCEPT ![c] = @ + 1]
            /\ pc' = [pc EXCEPT ![c] = "ec_lock"]
            /\ lockHolder' = Release(c)
            /\ hist' = Note(c, [hist[c] EXCEPT !.lastErr = None,
                                                !.frame = NoFrame,
                                                !.ecConn = 0,
                                                !.rtConn = 0])
            /\ UNCHANGED result
       ELSE /\ Return(c, [type |-> "fallthrough", cause |-> None, count |-> 0,
                          val |-> NoTag], hist[c])
            /\ UNCHANGED attempt
    /\ UNCHANGED <<unitVars, client, slot, is_connecting, wire, nconn, calls,
                   abortedAt, faults, failed>>

\* lines 96-98 (and 123-125, ...): the sleep ends, backoff_ms doubles and
\* `continue` drops connection_guard; the for loop takes the next attempt,
\* or falls out to line 209 when there is none
Wake(c) ==
    /\ pc[c] \in {"ec_sleep", "io_sleep"}
    /\ backoff_ms' = [backoff_ms EXCEPT ![c] = @ * 2]
    /\ IF attempt[c] < max_attempts
       THEN /\ attempt' = [attempt EXCEPT ![c] = @ + 1]
            /\ pc' = [pc EXCEPT ![c] = "ec_lock"]
            /\ lockHolder' = Release(c)
            /\ hist' = Note(c, [hist[c] EXCEPT !.lastErr = None,
                                                !.frame = NoFrame,
                                                !.ecConn = 0,
                                                !.rtConn = 0])
            /\ UNCHANGED result
       ELSE /\ Return(c, [type |-> "fallthrough", cause |-> None, count |-> 0,
                          val |-> NoTag], hist[c])
            /\ UNCHANGED attempt
    /\ UNCHANGED <<unitVars, client, slot, is_connecting, wire, nconn, calls,
                   abortedAt, faults, failed>>

\* Abort that also closes the connection in the slot, taking no lock
Abort_DropsConnection(partial) ==
    /\ client = "connected"
    /\ slot' = 0
    /\ pc[Heartbeat] \notin {"aborted", "panicked"}
    /\ partial => pc[Heartbeat] = "w_len"
    /\ pc' = [pc EXCEPT ![Heartbeat] = "aborted"]
    /\ abortedAt' = IF pc[Heartbeat] \in {"w_body", "r_len", "r_body"}
                    THEN "exchange"
                    ELSE IF pc[Heartbeat] = "ec_dial" THEN "dial" ELSE "elsewhere"
    /\ wire' = IF partial THEN [wire EXCEPT !.desync = TRUE] ELSE wire
    /\ lockHolder' = Release(Heartbeat)
    /\ attempt' = [attempt EXCEPT ![Heartbeat] = 0]
    /\ backoff_ms' = [backoff_ms EXCEPT ![Heartbeat] = 0]
    /\ hist' = Note(Heartbeat, FreshHist)
    /\ UNCHANGED <<unitVars, client, is_connecting, nconn, calls, result, faults,
                   failed>>

\* -------------------------------------------------------------- heartbeat
\* server.rs lines 86-88: JoinHandle::abort drops the task's future at the
\* .await it is suspended at; dropping it drops the MutexGuard it holds and
\* nothing else (no destructor resets is_connecting or drains the stream).
\* A write_all dropped half way may have put part of the length prefix on
\* the stream (`partial`).
Abort(partial) ==
    /\ client = "connected"
    /\ pc[Heartbeat] \notin {"aborted", "panicked"}
    /\ partial => pc[Heartbeat] = "w_len"
    /\ pc' = [pc EXCEPT ![Heartbeat] = "aborted"]
    /\ abortedAt' = IF pc[Heartbeat] \in {"w_body", "r_len", "r_body"}
                    THEN "exchange"
                    ELSE IF pc[Heartbeat] = "ec_dial" THEN "dial" ELSE "elsewhere"
    /\ wire' = IF partial THEN [wire EXCEPT !.desync = TRUE] ELSE wire
    /\ lockHolder' = Release(Heartbeat)
    /\ attempt' = [attempt EXCEPT ![Heartbeat] = 0]
    /\ backoff_ms' = [backoff_ms EXCEPT ![Heartbeat] = 0]
    /\ hist' = Note(Heartbeat, FreshHist)
    /\ UNCHANGED <<unitVars, client, slot, is_connecting, nconn, calls, result, faults,
                   failed>>

\* ------------------------------------------------------------------- Next
Next ==
    \/ \E ok \in BOOLEAN : Connect(ok)
    \/ \E c \in Foreground : Send(c)
    \/ Tick
    \/ \E c \in Callers : EC_Lock(c)
    \/ \E c \in Callers, ok \in BOOLEAN : EC_Probe(c, ok)
    \/ \E c \in Callers, ok \in BOOLEAN : EC_Dial(c, ok)
    \/ \E c \in Callers : SC_Lock(c)
    \/ \E c \in Callers, ok \in BOOLEAN : W_Len(c, ok)
    \/ \E c \in Callers, ok \in BOOLEAN : W_Body(c, ok)
    \/ \E c \in Callers, ok \in BOOLEAN : R_Len(c, ok)
    \/ \E c \in Callers, ok \in BOOLEAN, kind \in Kinds : R_Body(c, ok, kind)
    \/ \E c \in Callers : Wake(c)
    \/ \E partial \in BOOLEAN : Abort(partial)

Spec == Init /\ [][Next]_vars

\* ------------------------------------------- connect and the length prefix
\* the original client's connect (src/theater/client.rs lines 22-30): the
\* stream goes straight into the Mutex, a failed dial is mapped to the same
\* error text
ConnectOriginal(ok) ==
    /\ original.state = "new"
    /\ IF ok
       THEN original' = [state |-> "connected", connection |-> 1, err |-> <<>>]
       ELSE \E e \in IoErrors :
               original' = [state |-> "failed", connection |-> 0,
                            err |-> ConnectError(e)]
    /\ UNCHANGED <<clientVars, connectErr, codecVars>>

\* to_be_bytes with the bytes in the opposite order (to_le_bytes)
ToLeBytes(n) ==
    <<n % 256, (n \div 256) % 256, (n \div 65536) % 256, (n \div 16777216) % 256>>

\* lines 103-104: (message.len() as u32).to_be_bytes(): the four low-order
\* bytes of the length, most significant first
ToBeBytes(n) ==
    <<(n \div 16777216) % 256, (n \div 65536) % 256, (n \div 256) % 256, n % 256>>

\* line 161: u32::from_be_bytes(len_buf) as usize
FromBeBytes(b) == ((b[1] * 256 + b[2]) * 256 + b[3]) * 256 + b[4]

\* lengths at which a byte of the prefix rolls over, up to the largest the
\* checker's integers hold
EdgeLengths == {255, 256, 65535, 65536, 1048575, 1048576, 16777215, 16777216,
                2147483647}
Lengths == (0..MaxLen) \cup EdgeLengths

\* lines 102-104: the prefix for a message of msgLen bytes
EncodeHeader ==
    /\ len_bytes = <<>>
    /\ len_bytes' = ToBeBytes(msgLen)
    /\ UNCHANGED <<clientVars, connectErr, original, msgLen, response_len>>

\* lines 146-161: the reader parses the four bytes it read
DecodeHeader ==
    /\ len_bytes # <<>>
    /\ response_len = -1
    /\ response_len' = FromBeBytes(len_bytes)
    /\ UNCHANGED <<clientVars, connectErr, original, msgLen, len_bytes>>

\* connect of either client against an address that answers or not, and the
\* prefix of a message of any of the lengths
UnitInit ==
    /\ ClientInit
    /\ msgLen \in Lengths
    /\ len_bytes = <<>>
    /\ response_len = -1

UnitNext ==
    \/ \E ok \in BOOLEAN : Connect(ok)
    \/ \E ok \in BOOLEAN : ConnectOriginal(ok)
    \/ EncodeHeader
    \/ DecodeHeader

UnitSpec == UnitInit /\ [][UnitNext]_vars

\* =============================================================== properties
Dialing == {c \in Callers : pc[c] = "ec_dial"}
InRoundTrip == {c \in Callers : pc[c] \in {"w_len", "w_body", "r_len", "r_body"}}
UsingStream == InRoundTrip \cup {c \in Callers : pc[c] = "ec_probe"}
Returned(c) == pc[c] = "idle" /\ result[c].type # "pending"
Answered(c) == Returned(c) /\ result[c].type \in {"ok", "server_error"}

\* C1: at every moment at most one dial issued by ensure_connected is in
\* flight, whatever the foreground callers and the heartbeat are doing.
C1_AtMostOneDial == Cardinality(Dialing) <= 1

\* a dial is in flight while the other caller is inside send_command too,
\* held at the slot lock with the slot empty
C1_Witness ==
    \E c \in Callers, d \in Callers :
        c # d /\ pc[c] = "ec_dial" /\ pc[d] = "ec_lock" /\ slot = 0

\* C2: a caller that has started its write-request/read-response round trip
\* (or the probe write) holds the slot lock until it ends, so no two callers
\* ever use the transport handle at the same time.
C2_RoundTripAtomic ==
    /\ \A c \in UsingStream : lockHolder = c
    /\ Cardinality(UsingStream) <= 1

\* a round trip is half done (request written, response unread) while the
\* other caller waits for the lock
C2_Witness ==
    \E c \in Callers, d \in Callers :
        /\ c # d
        /\ pc[c] = "r_len" /\ wire.unread = <<Tag(c)>>
        /\ pc[d] \in {"ec_lock", "sc_lock"}

\* C3: every response send_command returns answers the request that same
\* call wrote, and whenever the slot lock is free the connection in the slot
\* has no request written (whole or in part) whose response is still unread.
C3_PairedFifo ==
    /\ \A c \in Foreground : Answered(c) => result[c].val = Tag(c)
    /\ (lockHolder = None /\ slot # 0) => wire = CleanWire

\* C4: aborting the heartbeat at any suspension point leaves the reconnecting
\* flag false (unless a foreground caller is dialing) and the slot lock free
\* of the heartbeat, so later sends can still dial.
C4_AbortKeepsClientUsable ==
    pc[Heartbeat] = "aborted" =>
        /\ lockHolder # Heartbeat
        /\ is_connecting => \E c \in Foreground : pc[c] = "ec_dial"

\* C5: aborting the heartbeat between writing its request and finishing the
\* read of the response leaves nothing of that exchange on the connection in
\* the slot, and no later send_command returns the heartbeat's response.
C5_AbortLeaksNoExchange ==
    abortedAt = "exchange" =>
        /\ (lockHolder = None /\ slot # 0) =>
               (~wire.whdr /\ ~wire.rhdr /\ wire.unread = <<>>)
        /\ \A c \in Foreground : Answered(c) => result[c].val.c # Heartbeat

\* C6: the reconnecting flag is true only while some ensure_connected call
\* is dialing.
C6_FlagOnlyDuringDial == is_connecting => Dialing # {}

\* C7: a call that returns a success response has written its request to the
\* server exactly once and read exactly one response, also when earlier
\* attempts of the call failed and were retried.  (That the response is the
\* one to its request is C3's pairing.)
C7_ExactlyOnce ==
    \A c \in Foreground :
        (Returned(c) /\ result[c].type = "ok") =>
            /\ hist[c].writes = 1
            /\ hist[c].reads = 1

\* C8: a call makes at most max_attempts attempts, each with at most one
\* ensure_connected call (so at most one dial) and at most one round trip,
\* and it never sleeps after the last attempt (nor reaches the fall-through).
C8_AttemptBudget ==
    /\ \A c \in Callers :
        /\ attempt[c] <= max_attempts
        /\ pc[c] \in {"ec_sleep", "io_sleep"} => attempt[c] < max_attempts
    /\ \A c \in Foreground :
        /\ hist[c].ec \in {attempt[c] - 1, attempt[c]}
        /\ hist[c].dials <= hist[c].ec
        /\ hist[c].writes <= attempt[c]
        /\ hist[c].reads <= hist[c].writes
        /\ Len(hist[c].slept) <= max_attempts - 1
        /\ Returned(c) => Len(hist[c].slept) = attempt[c] - 1
        /\ result[c].type # "fallthrough"

\* a call used up its three attempts, dialing in each, slept twice and
\* returned the terminal error
C8_Witness ==
    \E c \in Foreground :
        /\ Returned(c) /\ result[c].type = "exhausted"
        /\ attempt[c] = max_attempts
        /\ hist[c].dials = max_attempts
        /\ Len(hist[c].slept) = max_attempts - 1

\* C9: when the response read is the server's error payload the call returns
\* ServerError with the server's message in that very step, on whatever
\* attempt, having slept only after the earlier failed attempts.
C9_ServerErrorImmediate ==
    \A c \in Foreground :
        hist[c].frame.kind = "error" =>
            /\ Returned(c)
            /\ result[c].type = "server_error"
            /\ result[c].val = hist[c].frame.tag
            /\ Len(hist[c].slept) = attempt[c] - 1

\* the first attempt of a call read an error payload
C9_Witness ==
    \E c \in Foreground :
        /\ hist[c].frame.kind = "error" /\ attempt[c] = 1
        /\ result[c].type = "server_error" /\ result[c].val = Tag(c)

\* C10: a call during which no probe, dial, write, read or decode fails
\* writes one request, reads one response, never sleeps and returns the
\* decoded response unchanged.
C10_CleanCallOneRoundTrip ==
    \A c \in Foreground :
        ~hist[c].faulted =>
            /\ hist[c].slept = <<>>
            /\ pc[c] # "panicked"
            /\ Returned(c) =>
                  /\ hist[c].writes = 1 /\ hist[c].reads = 1
                  /\ result[c].type \in {"ok", "server_error"}
                  /\ result[c].val = Decode(hist[c].frame).val

\* ---------------------------------------------------------------- C11-C20
RECURSIVE Pow2(_)
Pow2(n) == IF n = 0 THEN 1 ELSE 2 * Pow2(n - 1)

RECURSIVE SumSeq(_)
SumSeq(q) == IF q = <<>> THEN 0 ELSE Head(q) + SumSeq(Tail(q))

\* C11: within one call the delay slept after the k-th failed attempt
\* (k < max_attempts) is 500 * 2^(k-1) ms, whatever made the attempt fail;
\* the delay a call would sleep next is the one its attempt number gives.
C11_BackoffDoubles ==
    /\ \A c \in Callers :
          attempt[c] > 0 => backoff_ms[c] = InitialBackoffMs * Pow2(attempt[c] - 1)
    /\ \A c \in Foreground :
          /\ Len(hist[c].slept) < max_attempts
          /\ \A k \in 1..Len(hist[c].slept) :
                hist[c].slept[k] = InitialBackoffMs * Pow2(k - 1)

\* the write of the length prefix failed on attempts 1 and 2, attempt 3 went
\* through: the call slept 500 ms then 1000 ms and returned the response
C11_Witness ==
    \E c \in Foreground :
        /\ Returned(c) /\ result[c].type = "ok" /\ result[c].val = Tag(c)
        /\ attempt[c] = 3
        /\ hist[c].causes = "write_len"
        /\ hist[c].slept = <<500, 1000>>

\* C12: a call whose max_attempts attempts all ended in a recoverable failure
\* returns the attempts-exhausted error, which names the attempt count 3 and
\* the failure of the last attempt.
C12_ExhaustedNamesCountAndCause ==
    \A c \in Foreground :
        (Returned(c) /\ ~Answered(c) /\ Len(hist[c].slept) = max_attempts - 1)
        => /\ result[c].type = "exhausted"
           /\ result[c].count = 3
           /\ hist[c].lastErr # None
           /\ result[c].cause = hist[c].lastErr

\* three attempts failed for different reasons, the last one at the read of
\* the response body
C12_Witness ==
    \E c \in Foreground :
        /\ Returned(c) /\ result[c].type = "exhausted"
        /\ hist[c].causes = "mixed"
        /\ hist[c].lastErr = "read_body"
        /\ Len(hist[c].slept) = 2

C14_ThreeDialsTwoSleeps ==
    \A c \in Foreground :
        (Returned(c) /\ ~Answered(c) /\ hist[c].causes = "dial")
        => /\ hist[c].dials = 3
           /\ hist[c].ec = 3
           /\ Len(hist[c].slept) = 2
           /\ SumSeq(hist[c].slept) = 1500
           /\ result[c] = Exhausted("dial")
           /\ hist[c].writes = 0 /\ hist[c].reads = 0

\* the heartbeat has never run, the slot is empty and the call's three dials
\* have failed
C14_Witness ==
    \E c \in Foreground :
        /\ calls[Heartbeat] = 0 /\ abortedAt = None
        /\ Returned(c) /\ result[c] = Exhausted("dial")
        /\ hist[c].causes = "dial" /\ hist[c].dials = 3
        /\ hist[c].slept = <<500, 1000>>
        /\ slot = 0 /\ ~is_connecting /\ lockHolder = None

\* C15: of two send_command calls running on an empty slot at most one is
\* dialing, and the other shows one behaviour only: it waits for the slot
\* lock (as C1_Witness shows it does) and never fails fast with the
\* reconnect-in-progress condition.
C15_OneDialerOtherWaits ==
    /\ Cardinality(Dialing) <= 1
    /\ \A c \in Foreground : hist[c].lastErr # "in_progress"

\* C16: when a probe, a length-prefix write, a payload write, a header read
\* or a body read fails on the stream in the slot, the slot is empty in the
\* same step (before the guard can be dropped), and the failed stream is in
\* the slot or under a probe or round trip never again.
C16_FailedHandleDropped ==
    [][ /\ failed' # failed => (slot # 0 /\ failed' = failed \cup {slot} /\ slot' = 0)
        /\ slot' \notin failed'
        /\ failed \subseteq failed'
        /\ \A c \in Callers :
              (pc'[c] \in {"ec_probe", "w_len", "w_body", "r_len", "r_body"})
              => /\ slot' # 0 /\ lockHolder' = c
                 /\ (c \in Foreground /\ pc'[c] # "ec_probe")
                    => (hist'[c].rtConn = slot' /\ hist'[c].rtConn \notin failed')
      ]_vars

\* a stream has failed under a call, and the same call is now in a round
\* trip on the stream dialed after it
C16_Witness ==
    \E c \in Foreground :
        /\ failed # {} /\ slot \notin failed
        /\ c \in InRoundTrip /\ hist[c].faulted
        /\ hist[c].rtConn = slot /\ \A f \in failed : f < slot

\* a call is inside send_command having found the slot empty, with no
\* failure of its own operations so far
FoundEmpty(c) ==
    ~hist[c].faulted /\ (hist[c].dials > 0 \/ hist[c].causes # None)

\* C17: after a failure has emptied the slot, the next send_command whose own
\* dial, writes and reads all succeed dials once through ensure_connected
\* and returns the server's response; it does not end without one.
C17_NextSendReconnects ==
    \A c \in Foreground :
        (FoundEmpty(c) /\ pc[c] \in {"idle", "panicked"} /\ result[c].type # "pending")
        => (Answered(c) /\ hist[c].dials = 1)

\* the step in which caller c's ensure_connected returns Ok / returns Err
\* (an Err on the last attempt makes send_command return in the same step)
InEnsure(c) == pc[c] \in {"ec_lock", "ec_probe", "ec_dial"}
EnsureOk(c) == InEnsure(c) /\ pc'[c] = "sc_lock"
EnsureErr(c) == InEnsure(c) /\ pc'[c] \in {"ec_sleep", "idle"}

\* C18: when ensure_connected returns Ok the slot holds a stream at that
\* moment, and when it returns Err (failed dial or reconnect in progress) the
\* slot is empty at that moment.
C18_EnsureResultMatchesSlot ==
    [][\A c \in Callers : /\ EnsureOk(c) => slot' # 0
                          /\ EnsureErr(c) => slot' = 0]_vars

\* ensure_connected has just returned Ok after a failed probe and a dial of
\* its own, and the slot holds the stream it dialed
C18_Witness ==
    \E c \in Foreground :
        /\ pc[c] = "sc_lock" /\ hist[c].faulted /\ hist[c].dials = 1
        /\ hist[c].causes = None
        /\ slot = nconn /\ slot \notin failed

\* C19: the ensure_connected that claimed the flag and dialed returns with
\* the flag false whether the dial succeeded or failed; it returns Ok exactly
\* when the dial succeeded, with the new stream in the slot, and returns the
\* dial error with the slot left empty otherwise.
C19_DialOutcome ==
    [][\A c \in Callers :
         (pc[c] = "ec_dial" /\ pc'[c] # "ec_dial" /\ pc'[c] # "aborted")
         => /\ is_connecting /\ ~is_connecting'
            /\ \/ /\ pc'[c] = "sc_lock"
                  /\ nconn' = nconn + 1 /\ slot' = nconn'
                  /\ faults' = faults
               \/ /\ pc'[c] \in {"ec_sleep", "idle"}
                  /\ slot = 0 /\ slot' = 0 /\ nconn' = nconn
                  /\ faults' = faults + 1
                  /\ c \in Foreground => hist'[c].lastErr = "dial"
      ]_vars

\* a dial has just failed: its caller is in the backoff sleep with the dial
\* error, the flag is false, the slot is empty and the lock is free
C19_Witness ==
    \E c \in Foreground :
        /\ pc[c] = "ec_sleep" /\ hist[c].lastErr = "dial"
        /\ ~is_connecting /\ slot = 0 /\ lockHolder = None

\* C20: an ensure_connected that has the slot empty under its guard and
\* finds the flag already true returns the "already in progress" failure in
\* that step: no dial is started, nothing is waited for, the slot stays
\* empty, the flag stays true and the guard is dropped.
C20_InProgressFailsAtOnce ==
    [][\A c \in Callers :
         (/\ pc[c] \in {"ec_lock", "ec_probe"}
          /\ pc'[c] \notin {pc[c], "aborted"}
          /\ is_connecting /\ slot' = 0)
         => /\ pc'[c] \in {"ec_sleep", "idle"}
            /\ pc'[c] = "idle" <=> attempt[c] = max_attempts
            /\ is_connecting'
            /\ nconn' = nconn
            /\ lockHolder' # c
            /\ c \in Foreground =>
                  /\ hist'[c].lastErr = "in_progress"
                  /\ hist'[c].dials = hist[c].dials
      ]_vars

\* a call has just been refused with "already in progress": it is in the
\* backoff sleep, the flag is still true, the slot empty, the lock free and
\* nobody is dialing
C20_Witness ==
    \E c \in Foreground :
        /\ pc[c] = "ec_sleep" /\ hist[c].lastErr = "in_progress"
        /\ hist[c].dials = 0
        /\ is_connecting /\ slot = 0 /\ lockHolder = None /\ Dialing = {}

\* ---------------------------------------------------------------- C21-C30
\* C21: send_command treats the reconnect-in-progress failure like any other
\* recoverable failure: before the last attempt it sleeps the current delay,
\* doubles it and tries again, each such failure using up one attempt; the
\* caller gets it only as the terminal error of the last attempt.
C21_InProgressIsRetried ==
    \A c \in Foreground :
        hist[c].causes = "in_progress"
        => /\ hist[c].dials = 0 /\ hist[c].writes = 0 /\ hist[c].reads = 0
           /\ pc[c] = "ec_sleep"
              => /\ attempt[c] < max_attempts
                 /\ Len(hist[c].slept) = attempt[c]
                 /\ hist[c].ec = attempt[c]
                 /\ hist[c].slept[attempt[c]] = backoff_ms[c]
           /\ pc[c] = "ec_lock"
              => /\ Len(hist[c].slept) = attempt[c] - 1
                 /\ hist[c].ec = attempt[c] - 1
                 /\ backoff_ms[c] = 2 * hist[c].slept[attempt[c] - 1]
           /\ Returned(c)
              => /\ ~Answered(c) => /\ result[c] = Exhausted("in_progress")
                                     /\ attempt[c] = max_attempts
                                     /\ hist[c].ec = max_attempts
                                     /\ hist[c].slept = <<500, 1000>>

\* a call was refused with "already in progress" on each of its three
\* attempts and returned the terminal error after sleeping 500 and 1000 ms
C21_Witness ==
    \E c \in Foreground :
        /\ Returned(c) /\ result[c] = Exhausted("in_progress")
        /\ hist[c].causes = "in_progress"
        /\ hist[c].ec = 3 /\ hist[c].slept = <<500, 1000>>

\* C22: every round trip of an attempt runs on the stream that the same
\* attempt's ensure_connected probed successfully or dialed itself: the
\* stream found in the slot when the second lock is granted is that one.
C22_RoundTripOnEnsuredStream ==
    [][\A c \in Foreground :
         (pc[c] = "sc_lock" /\ pc'[c] = "w_len")
         => /\ hist[c].ecConn # 0
            /\ hist'[c].rtConn = hist[c].ecConn
      ]_vars

\* C23: a response body that does not deserialize is a recoverable failure:
\* the slot keeps its stream, and the attempt ends like any failed attempt,
\* in the backoff sleep before the last attempt (after which the whole round
\* trip is made again) and in the terminal error on the last.
C23_DecodeFailureRetried ==
    [][\A c \in Foreground :
         (pc[c] = "r_body" /\ hist'[c].lastErr = "decode")
         => /\ slot' = slot /\ slot # 0 /\ failed' = failed
            /\ hist'[c].reads = hist[c].reads + 1
            /\ IF attempt[c] < max_attempts
               THEN /\ pc'[c] = "io_sleep"
                    /\ hist'[c].slept = Append(hist[c].slept, backoff_ms[c])
                    /\ result'[c] = Pending
               ELSE /\ pc'[c] = "idle"
                    /\ result'[c] = Exhausted("decode")
      ]_vars

\* the first response did not decode; the call slept, ran ensure_connected,
\* wrote the request and read a response once more on the same stream, and
\* returned that response
C23_Witness ==
    \E c \in Foreground :
        /\ Returned(c) /\ result[c].type = "ok"
        /\ hist[c].causes = "decode" /\ attempt[c] = 2
        /\ hist[c].ec = 2 /\ hist[c].writes = 2 /\ hist[c].reads = 2
        /\ hist[c].slept = <<500>>
        /\ failed = {} /\ slot = 1 /\ hist[c].rtConn = 1

\* the .awaits inside send_command
InCallPcs == {"ec_lock", "ec_probe", "ec_dial", "ec_sleep", "sc_lock",
              "w_len", "w_body", "r_len", "r_body", "io_sleep"}

\* the step in which the heartbeat's ping returns an error
PingReturnsErr ==
    /\ pc[Heartbeat] \in InCallPcs \ {"sc_lock"}
    /\ pc'[Heartbeat] \notin InCallPcs \cup {"aborted"}
    /\ pc[Heartbeat] = "r_body" => faults' # faults

C25_OnePingPerTick ==
    [][ /\ calls'[Heartbeat] # calls[Heartbeat]
           => /\ calls'[Heartbeat] = calls[Heartbeat] + 1
              /\ pc[Heartbeat] = "idle" /\ pc'[Heartbeat] = "ec_lock"
        /\ (pc[Heartbeat] \notin InCallPcs /\ pc'[Heartbeat] \in InCallPcs)
           => calls'[Heartbeat] = calls[Heartbeat] + 1
      ]_vars

\* the second tick has fired after the first ping returned, and the second
\* ping is in its round trip
C25_Witness ==
    /\ calls[Heartbeat] = 2 /\ pc[Heartbeat] = "r_len"
    /\ attempt[Heartbeat] = 1 /\ lockHolder = Heartbeat

\* C26: a heartbeat ping that fails never panics, and it holds the slot lock
\* only while it is inside send_command, so that foreground calls get the
\* lock after it.
C26_PingNeitherPanicsNorBlocks ==
    /\ pc[Heartbeat] # "panicked"
    /\ lockHolder = Heartbeat => pc[Heartbeat] \in InCallPcs

\* C27: every send_command call returns: no foreground call ends in a state
\* from which it never returns.
C27_EveryCallReturns ==
    \A c \in Foreground : pc[c] # "panicked"

\* C28: every send_command call starts at attempt 1 with a delay of 500 ms
\* whatever earlier or concurrent calls did, and a caller's attempt counter
\* and delay change only in that caller's own steps.
C28_BackoffPerCall ==
    [][\A c \in Callers :
         /\ (pc[c] = "idle" /\ pc'[c] = "ec_lock")
            => (attempt'[c] = 1 /\ backoff_ms'[c] = InitialBackoffMs)
         /\ (attempt'[c] # attempt[c] \/ backoff_ms'[c] # backoff_ms[c])
            => /\ pc'[c] # pc[c]
               /\ \A d \in Callers \ {c} :
                     /\ pc'[d] = pc[d]
                     /\ attempt'[d] = attempt[d]
                     /\ backoff_ms'[d] = backoff_ms[d]
      ]_vars

\* a caller starts its second call at attempt 1 and 500 ms while the
\* heartbeat's ping is on its third attempt with its own delay of 2000 ms
C28_Witness ==
    \E c \in Foreground :
        /\ calls[c] = 2 /\ pc[c] = "ec_lock" /\ hist[c].ec = 0
        /\ attempt[c] = 1 /\ backoff_ms[c] = 500
        /\ attempt[Heartbeat] = 3 /\ backoff_ms[Heartbeat] = 2000
        /\ pc[Heartbeat] \in InCallPcs

Words(msg) == {msg[i] : i \in 1..Len(msg)}

\* C29: connect yields a client only when its dial succeeded, and the
\* reconnecting client then starts with that connection in the slot and the
\* flag false; when the dial failed, connect returns an error that names the
\* connection failure and there is no client.  Both clients behave so.
C29_ConnectYieldsClientIffDialed ==
    /\ client = "new" => (slot = 0 /\ connectErr = <<>>)
    /\ client = "connected"
       => (slot = 1 /\ nconn = 1 /\ ~is_connecting /\ connectErr = <<>>)
    /\ client = "failed"
       => /\ slot = 0 /\ nconn = 0
          /\ "connect" \in Words(connectErr) /\ "Failed" \in Words(connectErr)
          /\ \A c \in Callers : pc[c] = "idle" /\ calls[c] = 0
    /\ original.state = "new" => (original.connection = 0 /\ original.err = <<>>)
    /\ original.state = "connected"
       => (original.connection # 0 /\ original.err = <<>>)
    /\ original.state = "failed"
       => /\ original.connection = 0
          /\ "connect" \in Words(original.err) /\ "Failed" \in Words(original.err)

\* nothing listens at the address: the connect of both clients has failed
\* with the same error text
C29_Witness ==
    /\ client = "failed" /\ original.state = "failed"
    /\ connectErr = ConnectError("connection refused")
    /\ original.err = connectErr

\* C30: the 4-byte big-endian length prefix round-trips: the prefix made for
\* a message of n bytes is four bytes that parse back to n, for every n tried
\* (0..MaxLen and the roll-over lengths up to 2^31 - 1, 2^20 among them).
C30_LengthPrefixRoundTrips ==
    /\ len_bytes # <<>>
       => /\ Len(len_bytes) = 4
          /\ \A i \in 1..4 : len_bytes[i] \in 0..255
          /\ FromBeBytes(len_bytes) = msgLen
          /\ msgLen < 256 => len_bytes = <<0, 0, 0, msgLen>>
    /\ response_len # -1 => response_len = msgLen

\* the prefix of a message of 2^20 bytes is 00 10 00 00 and was read back as
\* 1048576
C30_Witness ==
    /\ msgLen = 1048576
    /\ len_bytes = <<0, 16, 0, 0>>
    /\ response_len = 1048576

\* ---------------------------------------------------------------- C31-C37
\* the step is one of caller c's own
StepOf(c) == pc'[c] # pc[c]

\* C31: once the client exists, the slot changes value (empty to filled,
\* filled to empty) only in a step of the caller that holds the slot lock,
\* and a caller decides on the slot's content (probe or dial, borrow or
\* panic) only in the step in which it is granted the lock.
C31_SlotChangesUnderLock ==
    [][ /\ (client = "connected" /\ slot' # slot)
           => \E c \in Callers : lockHolder = c /\ StepOf(c)
        /\ \A c \in Callers :
              (pc[c] \in {"ec_lock", "sc_lock"} /\ StepOf(c) /\ pc'[c] # "aborted")
              => lockHolder = None
      ]_vars

\* the slot has been emptied and filled again, each time by the lock holder
C31_Witness ==
    /\ slot = 2 /\ failed = {1} /\ nconn = 2
    /\ \E c \in Callers : lockHolder = c /\ pc[c] = "w_body"

\* C32: when send_command is granted the slot lock after its
\* ensure_connected returned Ok, the slot still holds a stream: the unwrap
\* does not panic.
C32_UnwrapNeverPanics ==
    [][\A c \in Callers :
         (pc[c] = "sc_lock" /\ StepOf(c) /\ pc'[c] # "aborted")
         => (slot # 0 /\ pc'[c] = "w_len")
      ]_vars

\* C33: while no task has been cancelled, the reconnecting flag is true only
\* while the caller that set it is dialing with the slot lock held; so a
\* caller that is granted the lock in ensure_connected, or whose probe has
\* just failed, never finds the flag set, no attempt fails with "Connection
\* attempt already in progress", and a caller that arrives during another
\* caller's dial stays waiting for the lock.
C33_FlagOnlyUnderLock ==
    [][abortedAt' = None =>
         /\ is_connecting' => \E c \in Callers : pc'[c] = "ec_dial" /\ lockHolder' = c
         /\ \A c \in Callers :
               (pc[c] \in {"ec_lock", "ec_probe"} /\ StepOf(c)) => ~is_connecting
         /\ \A c \in Foreground : hist'[c].lastErr # "in_progress"
         /\ \A c \in Callers, d \in Callers :
               (pc[c] = "ec_dial" /\ pc[d] = "ec_lock") => pc'[d] = "ec_lock"
      ]_vars

\* a caller waits for the lock, the slot empty, while the other one dials
C33_Witness ==
    /\ abortedAt = None /\ is_connecting /\ slot = 0
    /\ \E c \in Callers, d \in Callers :
          /\ c # d /\ lockHolder = c
          /\ pc[c] = "ec_dial" /\ pc[d] = "ec_lock" /\ attempt[d] = 1

\* C34: a caller whose attempt failed at a write, a read or the decode sleeps
\* its backoff with the slot lock held, and while it sleeps no other caller
\* gets past a lock acquisition or is inside ensure_connected or a round
\* trip; a caller whose attempt failed in ensure_connected sleeps without
\* the lock.
C34_SleepHoldsLockAfterIo ==
    [][\A c \in Callers :
         /\ pc'[c] = "io_sleep" =>
               /\ lockHolder' = c
               /\ \A d \in Callers \ {c} :
                     pc'[d] \in {"idle", "ec_lock", "sc_lock", "ec_sleep",
                                 "panicked", "aborted"}
         /\ (pc[c] = "io_sleep" /\ pc'[c] = "io_sleep") =>
               \A d \in Callers \ {c} :
                   (pc[d] \in {"ec_lock", "sc_lock"} /\ StepOf(d)) => pc'[d] = "aborted"
         /\ pc'[c] = "ec_sleep" => lockHolder' # c
      ]_vars

\* the foreground caller sleeps with the lock after a failed write or read
\* while the heartbeat's ping sleeps without it after a failed dial
C34_Witness ==
    \E c \in Foreground :
        /\ pc[c] = "io_sleep" /\ lockHolder = c
        /\ hist[c].lastErr \in {"write_len", "write_body", "read_len", "read_body"}
        /\ pc[Heartbeat] = "ec_sleep"

\* C35: the step in which send_command returns a success response or a
\* ServerError leaves the slot as it was, holding the stream the exchange
\* ran on, which has not been marked failed; the reconnecting flag is false
\* and no dial has been made.
C35_AnswerKeepsConnection ==
    [][\A c \in Callers :
         (pc[c] = "r_body" /\ pc'[c] = "idle"
            /\ result'[c].type \in {"ok", "server_error"})
         => /\ slot' = slot /\ slot # 0 /\ slot \notin failed'
            /\ c \in Foreground => hist[c].rtConn = slot /\ hist'[c].rtConn = slot
            /\ ~is_connecting'
            /\ nconn' = nconn /\ failed' = failed
      ]_vars

\* a call has returned a ServerError received on a re-dialed stream, and
\* that stream is still in the slot
C35_Witness ==
    \E c \in Foreground :
        /\ Answered(c) /\ calls[c] = 2 /\ result[c].type = "server_error"
        /\ slot = 2 /\ hist[c].rtConn = 2 /\ ~is_connecting

\* C36: a caller starts a dial only with the slot empty, and a handle is
\* stored only into an empty slot and is a fresh one; a handle leaves the
\* slot only in a step in which an operation on it failed.  So the streams
\* dialed so far are the failed ones plus at most the one in the slot.
C36_DialOnlyIntoEmptySlot ==
    [][client = "connected" =>
         /\ \A c \in Callers :
               (pc[c] # "ec_dial" /\ pc'[c] = "ec_dial") => (slot' = 0 /\ lockHolder' = c)
         /\ nconn' # nconn => (slot = 0 /\ nconn' = nconn + 1 /\ slot' = nconn')
         /\ (slot' # slot /\ slot' # 0) => (slot = 0 /\ nconn' = nconn + 1)
         /\ (slot' # slot /\ slot' = 0) =>
               (slot \notin failed /\ failed' = failed \cup {slot} /\ faults' = faults + 1)
         /\ nconn' = Cardinality(failed') + (IF slot' = 0 THEN 0 ELSE 1)
      ]_vars

\* two streams have failed and been cleared; the third one dialed is in use
C36_Witness ==
    /\ slot = 3 /\ failed = {1, 2} /\ nconn = 3
    /\ \E c \in Callers : pc[c] = "r_len" /\ lockHolder = c

\* C37: when the response header is 0, the body read does not fail and
\* leaves the slot and the stream as they are: the caller keeps the lock
\* and its stream, no transport error is recorded, and the empty body goes
\* to the decode step, whose failure is what the attempt ends with.
C37_EmptyBodyReachesDecode ==
    [][\A c \in Foreground :
         (pc[c] = "r_body" /\ StepOf(c) /\ pc'[c] # "aborted"
            /\ hist'[c].frame.kind = "empty")
         => /\ slot' = slot /\ slot # 0 /\ failed' = failed
            /\ hist'[c].reads = hist[c].reads + 1
            /\ hist'[c].lastErr = "decode"
            /\ \/ pc'[c] = "io_sleep" /\ lockHolder' = c
               \/ pc'[c] = "idle" /\ result'[c] = Exhausted("decode")
      ]_vars

\* a call sleeps after a zero-length response, its stream still in the slot
C37_Witness ==
    \E c \in Foreground :
        /\ pc[c] = "io_sleep" /\ hist[c].frame.kind = "empty"
        /\ hist[c].lastErr = "decode" /\ slot = hist[c].rtConn /\ slot # 0
        /\ slot \notin failed

====
